---- MODULE Spec2Model ----
(***************************************************************************)
(* A model of dnf/comps.py: the Comps store (merge of parsed metadata,     *)
(* compile of the installed-group set, pattern lookup), the language chain *)
(* of _Langs and the localized text lookup of Forwarder._ui_text.          *)
(***************************************************************************)
EXTENDS Integers, Sequences, FiniteSets, TLC

VARIABLES
    categories,        \* Comps._i.categories: sequence of category ids
    groups,            \* Comps._i.groups: sequence of group records
    environments,      \* Comps._i.environments: sequence of environment ids
    installed_groups,  \* Comps._installed_groups: set of group ids
    last,              \* the last store operation: its kind, inputs and outcome
    compiled,          \* whether compile has been called at least once
    pc,                \* position of a running compile ("idle" when none runs)
    idx,               \* index of the next group the running compile visits
    inst_names,        \* inst_names of the running compile
    before,            \* installed set at the moment the running compile started
    observed,          \* last Group.installed read made while a compile was running
    sqn,               \* the candidate collection handed to _by_pattern
    pattern,           \* the pattern of the lookup
    case_sensitive,    \* the case_sensitive flag of the lookup
    by_pattern_ret,    \* the set _by_pattern returned (indices into sqn)
    first,             \* what the single-result accessor returned (0: None)
    mpc,               \* "input", then "set" or "first" once a lookup has run
    lcl,               \* locale.getlocale(LC_MESSAGES): the system's setting
    last_locale,       \* _Langs.last_locale (<<>>: None)
    cache,             \* _Langs.cache (<<>>: None, else <<the list>>)
    seen,              \* the locale the previous call of get found (<<>>: no call yet)
    langs,             \* the last call of get: what it returned, whether it recomputed
    ui,                \* the last call of _ui_text: its arguments and its result
    lpc                \* the last operation on the language side

storeVars == <<categories, groups, environments, installed_groups, last, compiled>>
stepVars == <<pc, idx, inst_names, before, observed>>
matchVars == <<sqn, pattern, case_sensitive, by_pattern_ret, first, mpc>>
langVars == <<lcl, last_locale, cache, seen, langs, ui, lpc>>
vars == <<storeVars, stepVars, matchVars, langVars>>

----------------------------------------------------------------------------
(* Bounds of the model *)

MaxGroups == 2
MaxOther == 1
MaxPatLen == 3
MaxCands == 2

----------------------------------------------------------------------------
(* Data *)

Range(s) == {s[i] : i \in 1..Len(s)}

MANDATORY == "mandatory"
DEFAULT == "default"
OPTIONAL == "optional"
CONDITIONAL == "conditional"

Pkg(n, t) == [name |-> n, type |-> t]

PkgNames == {"p1", "p2"}

\* Package lists of the groups the parser can deliver.
PackageLists ==
    { <<>>,
      <<Pkg("p1", MANDATORY), Pkg("p2", MANDATORY)>>,
      <<Pkg("p1", OPTIONAL), Pkg("p2", MANDATORY)>>,
      <<Pkg("p1", OPTIONAL), Pkg("p2", DEFAULT)>>,
      <<Pkg("p1", CONDITIONAL)>> }

GroupIds == {"g1", "g2"}

GroupPool == [id : GroupIds, packages : PackageLists]

Batch(cs, gs, es) == [categories |-> cs, groups |-> gs, environments |-> es]

\* What the parser can deliver for one file: nothing, one entity, or one
\* entity of each kind.
Batches ==
    {Batch(<<>>, <<>>, <<>>), Batch(<<"c1">>, <<>>, <<>>),
     Batch(<<>>, <<>>, <<"e1">>)}
    \cup {Batch(<<>>, <<g>>, <<>>) : g \in GroupPool}
    \cup {Batch(<<"c1">>, <<g>>, <<"e1">>) : g \in GroupPool}

\* What a failed parse may have read before it failed.
FailedBatches ==
    {Batch(<<>>, <<>>, <<>>),
     Batch(<<"c1">>, <<[id |-> "g2", packages |-> <<Pkg("p1", CONDITIONAL)>>]>>, <<>>)}

\* Error message lists of a failed parse; a message is a sequence of words.
ErrorLists == {<<>>, <<<<"bad">>>>, <<<<"no", "root">>, <<"bad">>>>}

\* Lists of installed packages handed to compile (package names).
InstalledPkgLists == {<<>>, <<"p1">>, <<"p2", "p2">>, <<"p2", "p1">>}

NoError == [is |-> FALSE, msg |-> <<>>]

----------------------------------------------------------------------------
(* Helpers of the store *)

\* _internal_comps_length: the sum of the lengths of the three collections.
InternalCompsLength(comps) ==
    Len(comps.categories) + Len(comps.groups) + Len(comps.environments)

\* libcomps' Comps + Comps: each collection of the right operand is appended
\* to the same collection of the left one; equal ids are both kept.
CompsAdd(a, b) ==
    [categories |-> a.categories \o b.categories,
     groups |-> a.groups \o b.groups,
     environments |-> a.environments \o b.environments]

\* ' '.join(errors)
RECURSIVE JoinErrors(_)
JoinErrors(errors) ==
    IF Len(errors) = 0 THEN <<>>
    ELSE IF Len(errors) = 1 THEN errors[1]
    ELSE errors[1] \o <<" ">> \o JoinErrors(Tail(errors))

\* Comps._i as one record
Internal == [categories |-> categories, groups |-> groups,
             environments |-> environments]

\* Comps.__len__
CompsLen == InternalCompsLength(Internal)

\* Group._packages_of_type
PackagesOfType(group, type_) ==
    SelectSeq(group.packages, LAMBDA pkg : pkg.type = type_)

\* Group.installed: a read of the shared installed set by the group's id.
GroupInstalled(group, installed) == group.id \in installed

\* The mandatory loop adding the group as soon as one package is installed.
RECURSIVE MandatoryLoopAny(_, _, _)
MandatoryLoopAny(pkgs, k, names) ==
    IF k > Len(pkgs) THEN FALSE
    ELSE IF pkgs[k].name \in names THEN TRUE
    ELSE MandatoryLoopAny(pkgs, k + 1, names)

\* The for ... break ... else of compile over the mandatory packages: TRUE
\* when the loop ends without break (the else branch adds the group).
RECURSIVE MandatoryLoop(_, _, _)
MandatoryLoop(pkgs, k, names) ==
    IF k > Len(pkgs) THEN TRUE
    ELSE IF pkgs[k].name \notin names THEN FALSE
    ELSE MandatoryLoop(pkgs, k + 1, names)

\* The loop of compile over chain(optional, default): TRUE when some package
\* is installed (the group is added and the loop broken).
RECURSIVE OptionalLoop(_, _, _)
OptionalLoop(pkgs, k, names) ==
    IF k > Len(pkgs) THEN FALSE
    ELSE IF pkgs[k].name \in names THEN TRUE
    ELSE OptionalLoop(pkgs, k + 1, names)

\* One iteration of compile's loop over the groups: the installed set after
\* the group has been visited.
CompileGroupBody(group, names, installed) ==
    LET mandatory_packages == PackagesOfType(group, MANDATORY)
    IN  IF Len(mandatory_packages) # 0
        THEN IF MandatoryLoop(mandatory_packages, 1, names)
             THEN installed \cup {group.id}
             ELSE installed
        ELSE IF OptionalLoop(PackagesOfType(group, OPTIONAL)
                               \o PackagesOfType(group, DEFAULT), 1, names)
             THEN installed \cup {group.id}
             ELSE installed

\* compile's loop from group k on.
RECURSIVE CompileLoop(_, _, _, _)
CompileLoop(gs, k, names, installed) ==
    IF k > Len(gs) THEN installed
    ELSE CompileLoop(gs, k + 1, names, CompileGroupBody(gs[k], names, installed))

\* compile without the clear(): filled on top of the set left before.
CompileResultNoClear(gs, installed_pkgs) ==
    CompileLoop(gs, 1, Range(installed_pkgs), installed_groups)

\* The set compile leaves in _installed_groups: cleared, then filled.
CompileResult(gs, installed_pkgs) ==
    CompileLoop(gs, 1, Range(installed_pkgs), {})

----------------------------------------------------------------------------
(* The store: construction, merge, compile *)

LastInit == [op |-> "init", errors |-> <<>>, names |-> {},
             raised |-> NoError]

\* A text value that may be None.
NullText == [null |-> TRUE, text |-> ""]
Text(t) == [null |-> FALSE, text |-> t]

\* A language tag: language[_territory][.codeset][@modifier], an absent part
\* being the empty string.
Tag(l, t, c) == [language |-> l, territory |-> t, codeset |-> c, modifier |-> ""]

\* getlocale's (None, None)
NoLocale == [is_none |-> TRUE, language |-> "", territory |-> "", codeset |-> ""]
Locale(l, t, c) == [is_none |-> FALSE, language |-> l, territory |-> t, codeset |-> c]

\* _Langs.__init__, the system locale being unset
LangsInit ==
    /\ lcl = NoLocale
    /\ last_locale = <<>>
    /\ cache = <<>>
    /\ seen = <<>>
    /\ langs = [ret |-> <<>>, recomputed |-> FALSE]
    /\ ui = [default |-> Text(""), dct |-> <<>>, result |-> Text("")]
    /\ lpc = "idle"

\* No lookup is under way.
MatchIdle ==
    /\ sqn = <<>>
    /\ pattern = <<>>
    /\ case_sensitive = FALSE
    /\ by_pattern_ret = {}
    /\ first = 0
    /\ mpc = "idle"

\* Comps.__init__
StoreInit ==
    /\ categories = <<>>
    /\ groups = <<>>
    /\ environments = <<>>
    /\ installed_groups = {}
    /\ last = LastInit
    /\ compiled = FALSE
    /\ pc = "idle"
    /\ idx = 0
    /\ inst_names = {}
    /\ before = {}
    /\ observed = [during |-> FALSE, group |-> 0, value |-> FALSE,
                   in_before |-> FALSE, in_after |-> FALSE]

Init == StoreInit /\ MatchIdle /\ LangsInit

\* add_from_xml_filename with the parsed batch taken in place of the sum.
AddFromXmlFilenameReplace(ret, errors, batch) ==
    /\ pc = "idle"
    /\ IF ret = -1
       THEN /\ last' = [op |-> "merge", errors |-> errors, names |-> {},
                        raised |-> [is |-> TRUE, msg |-> JoinErrors(errors)]]
            /\ UNCHANGED <<categories, groups, environments>>
       ELSE /\ categories' = batch.categories
            /\ groups' = batch.groups
            /\ environments' = batch.environments
            /\ last' = [op |-> "merge", errors |-> <<>>, names |-> {},
                        raised |-> NoError]
    /\ UNCHANGED <<installed_groups, compiled, stepVars, matchVars, langVars>>

\* add_from_xml_filename with the sum taken before the check of ret.
AddFromXmlFilenameEager(ret, errors, batch) ==
    /\ pc = "idle"
    /\ Len(categories) + Len(batch.categories) <= MaxOther
    /\ Len(groups) + Len(batch.groups) <= MaxGroups
    /\ Len(environments) + Len(batch.environments) <= MaxOther
    /\ categories' = CompsAdd(Internal, batch).categories
    /\ groups' = CompsAdd(Internal, batch).groups
    /\ environments' = CompsAdd(Internal, batch).environments
    /\ last' = [op |-> "merge", errors |-> IF ret = -1 THEN errors ELSE <<>>,
                names |-> {},
                raised |-> IF ret = -1
                           THEN [is |-> TRUE, msg |-> JoinErrors(errors)]
                           ELSE NoError]
    /\ UNCHANGED <<installed_groups, compiled, stepVars, matchVars, langVars>>

\* Comps.add_from_xml_filename: the parser returns ret, its messages errors
\* and, when it succeeds, the parsed batch.
AddFromXmlFilename(ret, errors, batch) ==
    /\ pc = "idle"
    /\ IF ret = -1
       THEN /\ last' = [op |-> "merge", errors |-> errors,
                        names |-> {},
                        raised |-> [is |-> TRUE, msg |-> JoinErrors(errors)]]
            /\ UNCHANGED <<categories, groups, environments>>
       ELSE /\ Len(categories) + Len(batch.categories) <= MaxOther
            /\ Len(groups) + Len(batch.groups) <= MaxGroups
            /\ Len(environments) + Len(batch.environments) <= MaxOther
            /\ categories' = CompsAdd(Internal, batch).categories
            /\ groups' = CompsAdd(Internal, batch).groups
            /\ environments' = CompsAdd(Internal, batch).environments
            /\ last' = [op |-> "merge", errors |-> <<>>,
                        names |-> {}, raised |-> NoError]
    /\ UNCHANGED <<installed_groups, compiled, stepVars, matchVars, langVars>>

\* Comps.compile, run to completion.
Compile(installed_pkgs) ==
    /\ pc = "idle"
    /\ installed_groups' = CompileResult(groups, installed_pkgs)
    /\ last' = [op |-> "compile", errors |-> <<>>,
                names |-> Range(installed_pkgs), raised |-> NoError]
    /\ compiled' = TRUE
    /\ UNCHANGED <<categories, groups, environments, stepVars, matchVars, langVars>>

\* fromxml_f returns -1 on failure, 0 or 1 (parsed with warnings) otherwise.
Merge ==
    \/ \E errors \in ErrorLists, batch \in FailedBatches :
           AddFromXmlFilename(-1, errors, batch)
    \/ \E ret \in {0, 1}, batch \in Batches :
           AddFromXmlFilename(ret, <<>>, batch)

CompileAny == \E installed_pkgs \in InstalledPkgLists : Compile(installed_pkgs)

Next == Merge \/ CompileAny

Spec == Init /\ [][Next]_vars

----------------------------------------------------------------------------
(* compile statement by statement, with a reader of Group.installed *)

\* compile up to the loop: _installed_groups.clear() and inst_names.
CompileBegin(installed_pkgs) ==
    /\ pc = "idle"
    /\ before' = installed_groups
    /\ installed_groups' = {}
    /\ inst_names' = Range(installed_pkgs)
    /\ idx' = 1
    /\ pc' = "loop"
    /\ last' = [op |-> "compile", errors |-> <<>>,
                names |-> Range(installed_pkgs), raised |-> NoError]
    /\ compiled' = TRUE
    /\ UNCHANGED <<categories, groups, environments, observed, matchVars, langVars>>

\* One iteration of compile's loop over groups_iter.
CompileGroup ==
    /\ pc = "loop"
    /\ idx <= Len(groups)
    /\ installed_groups' = CompileGroupBody(groups[idx], inst_names, installed_groups)
    /\ idx' = idx + 1
    /\ UNCHANGED <<categories, groups, environments, last, compiled,
                   pc, inst_names, before, observed, matchVars, langVars>>

\* The loop of compile is exhausted: compile returns.
CompileReturn ==
    /\ pc = "loop"
    /\ idx > Len(groups)
    /\ pc' = "idle"
    /\ UNCHANGED <<storeVars, idx, inst_names, before, observed, matchVars, langVars>>

\* A reader evaluates Group.installed of the i-th group of the store.
ReadInstalled(i) ==
    /\ pc = "loop"
    /\ observed' = [during |-> pc = "loop", group |-> i,
                    value |-> GroupInstalled(groups[i], installed_groups),
                    in_before |-> groups[i].id \in before,
                    in_after |-> groups[i].id \in
                                    CompileLoop(groups, 1, inst_names, {})]
    /\ UNCHANGED <<storeVars, pc, idx, inst_names, before, matchVars, langVars>>

CompileBeginAny ==
    \E installed_pkgs \in InstalledPkgLists : CompileBegin(installed_pkgs)

ReadAny == \E i \in 1..Len(groups) : ReadInstalled(i)

NextSteps == Merge \/ CompileBeginAny \/ CompileGroup \/ CompileReturn \/ ReadAny

SpecSteps == Init /\ [][NextSteps]_vars

----------------------------------------------------------------------------
(* Pattern lookup: _by_pattern and the single-result accessors.  A string  *)
(* is a sequence of characters; a candidate is known by its index in sqn.  *)

Alphabet == {"a", "A", "*", "?", ",", " "}

RECURSIVE SeqsUpTo(_, _)
SeqsUpTo(S, n) ==
    IF n = 0 THEN {<<>>}
    ELSE LET shorter == SeqsUpTo(S, n - 1)
         IN  shorter \cup {Append(t, x) : t \in shorter, x \in S}

Patterns == SeqsUpTo(Alphabet, MaxPatLen)

Entity(i, n) == [id |-> i, name |-> n]

\* Entities the collections are made of: an id that is also the lower-case
\* form of another id, a name that holds a glob character, a name equal to an id.
EntityPool ==
    { Entity(<<"a">>, <<"a", "*">>),
      Entity(<<"A">>, <<"a", "A">>),
      Entity(<<"a", "A">>, <<"a", " ", "a">>),
      Entity(<<"A", "a">>, <<"A">>) }

Collections ==
    {c \in SeqsUpTo(EntityPool, MaxCands) :
        \A i, j \in 1..Len(c) : i # j => c[i] # c[j]}

\* str.split(','): the items between the commas, from position k on, cur being
\* the item read so far.
RECURSIVE SplitFrom(_, _, _)
SplitFrom(s, k, cur) ==
    IF k > Len(s) THEN <<cur>>
    ELSE IF s[k] = "," THEN <<cur>> \o SplitFrom(s, k + 1, <<>>)
    ELSE SplitFrom(s, k + 1, Append(cur, s[k]))

Split(s) == SplitFrom(s, 1, <<>>)

RECURSIVE LStrip(_)
LStrip(s) == IF Len(s) > 0 /\ s[1] = " " THEN LStrip(Tail(s)) ELSE s

RECURSIVE RStrip(_)
RStrip(s) ==
    IF Len(s) > 0 /\ s[Len(s)] = " " THEN RStrip(SubSeq(s, 1, Len(s) - 1)) ELSE s

\* str.strip()
Strip(s) == RStrip(LStrip(s))

\* fnmatch.translate: '*' becomes '.*', '?' becomes '.', any other character
\* of the alphabet its escaped literal; the result is anchored at the end.
FnmatchTranslate(item) ==
    [k \in 1..Len(item) |->
        IF item[k] = "*" THEN [kind |-> "star", ch |-> "*"]
        ELSE IF item[k] = "?" THEN [kind |-> "any", ch |-> "?"]
        ELSE [kind |-> "lit", ch |-> item[k]]]

Lower(c) == IF c = "A" THEN "a" ELSE c

\* re.compile(regex, flags).match(s) from token i and position j on; ignorecase
\* is the re.I flag.
RECURSIVE ReMatchFrom(_, _, _, _, _)
ReMatchFrom(regex, i, s, j, ignorecase) ==
    IF i > Len(regex) THEN j > Len(s)
    ELSE IF regex[i].kind = "star"
         THEN \E k \in j..(Len(s) + 1) : ReMatchFrom(regex, i + 1, s, k, ignorecase)
    ELSE IF regex[i].kind = "any"
         THEN j <= Len(s) /\ ReMatchFrom(regex, i + 1, s, j + 1, ignorecase)
    ELSE /\ j <= Len(s)
         /\ IF ignorecase THEN Lower(regex[i].ch) = Lower(s[j])
                          ELSE regex[i].ch = s[j]
         /\ ReMatchFrom(regex, i + 1, s, j + 1, ignorecase)

ReMatch(regex, s, ignorecase) == ReMatchFrom(regex, 1, s, 1, ignorecase)

\* The exact stage: candidates whose name or id equals the item.
ExactStage(item, cands) ==
    {i \in 1..Len(cands) : cands[i].name = item \/ cands[i].id = item}

\* The glob stage: candidates whose name or id matches the translated item.
GlobStage(item, cs, cands) ==
    LET regex == FnmatchTranslate(item)
    IN  {i \in 1..Len(cands) :
            \/ ReMatch(regex, cands[i].name, ~cs)
            \/ ReMatch(regex, cands[i].id, ~cs)}

\* The loop of _by_pattern with the glob stage run for every item.
RECURSIVE ByPatternLoopNoContinue(_, _, _, _, _)
ByPatternLoopNoContinue(items, k, cs, cands, acc) ==
    IF k > Len(items) THEN acc
    ELSE LET item == Strip(items[k])
         IN  ByPatternLoopNoContinue(items, k + 1, cs, cands,
                 acc \cup ExactStage(item, cands) \cup GlobStage(item, cs, cands))

\* The loop of _by_pattern left at the first item with an exact match.
RECURSIVE ByPatternLoopBreak(_, _, _, _, _)
ByPatternLoopBreak(items, k, cs, cands, acc) ==
    IF k > Len(items) THEN acc
    ELSE LET item == Strip(items[k])
             exact == ExactStage(item, cands)
         IN  IF exact # {}
             THEN acc \cup exact
             ELSE ByPatternLoopBreak(items, k + 1, cs, cands,
                                     acc \cup GlobStage(item, cs, cands))

\* The loop of _by_pattern over the items, acc being ret so far.
RECURSIVE ByPatternLoop(_, _, _, _, _)
ByPatternLoop(items, k, cs, cands, acc) ==
    IF k > Len(items) THEN acc
    ELSE LET item == Strip(items[k])
             exact == ExactStage(item, cands)
         IN  IF exact # {}
             THEN ByPatternLoop(items, k + 1, cs, cands, acc \cup exact)
             ELSE ByPatternLoop(items, k + 1, cs, cands,
                                acc \cup GlobStage(item, cs, cands))

\* _by_pattern
ByPattern(pat, cs, cands) == ByPatternLoop(Split(pat), 1, cs, cands, {})

\* A value that may be None.
NoneSeq == [is_none |-> TRUE, items |-> {}]
SomeSeq(S) == [is_none |-> FALSE, items |-> S]

\* dnf.util.first: the first element the set's iterator delivers, None (0) for
\* an empty set.  The iteration order of a set of wrapper objects is not
\* determined by the collection, so every element is a possible outcome.
First(S) == IF S = {} THEN {0} ELSE S

\* _first_if_iterable with its test inverted.
FirstIfIterableInverted(seq) ==
    IF ~seq.is_none THEN {0} ELSE First(seq.items)

\* _first_if_iterable: the possible results.
FirstIfIterable(seq) ==
    IF seq.is_none THEN {0} ELSE First(seq.items)

\* A lookup is about to be made: any collection, pattern and flag.
MatchInit ==
    /\ sqn \in Collections
    /\ pattern \in Patterns
    /\ case_sensitive \in BOOLEAN
    /\ by_pattern_ret = {}
    /\ first = 0
    /\ mpc = "input"

\* categories_by_pattern / groups_by_pattern / environments_by_pattern over
\* the collection sqn.
GroupsByPattern ==
    /\ mpc = "input"
    /\ by_pattern_ret' = ByPattern(pattern, case_sensitive, sqn)
    /\ mpc' = "set"
    /\ UNCHANGED <<sqn, pattern, case_sensitive, first, storeVars, stepVars, langVars>>

\* category_by_pattern / group_by_pattern / environment_by_pattern over the
\* collection sqn; by_pattern_ret keeps the set the accessor took its result from.
GroupByPattern ==
    /\ mpc = "input"
    /\ LET grps == ByPattern(pattern, case_sensitive, sqn)
       IN  /\ \E r \in FirstIfIterable(SomeSeq(grps)) : first' = r
           /\ by_pattern_ret' = grps
    /\ mpc' = "first"
    /\ UNCHANGED <<sqn, pattern, case_sensitive, storeVars, stepVars, langVars>>

NextMatch == GroupsByPattern \/ GroupByPattern

InitMatch == StoreInit /\ MatchInit /\ LangsInit

SpecMatch == InitMatch /\ [][NextMatch]_vars

----------------------------------------------------------------------------
(* The language chain (_Langs) and the localized text (Forwarder._ui_text) *)

LocaleSettings ==
    { NoLocale,
      Locale("en", "_US", ".UTF-8"),
      Locale("de", "", ".UTF-8"),
      Locale("C", "", ".UTF-8") }

CTag == Tag("C", "", "")

\* _Langs._dotted_locale_str: 'C' for (None, None), else the two parts joined
\* by a dot.
DottedLocaleStr(l) ==
    IF l.is_none THEN CTag ELSE Tag(l.language, l.territory, l.codeset)

Bit(i, b) == (i \div b) % 2

\* gettext._expand_lang on a normalized locale: every combination of the
\* parts the locale has (codeset 1, territory 2, modifier 4), the fullest
\* first, the bare language last.
RECURSIVE ExpandDown(_, _, _)
ExpandDown(loc, i, mask) ==
    IF i < 0 THEN <<>>
    ELSE (IF \A b \in {1, 2, 4} : Bit(i, b) = 1 => Bit(mask, b) = 1
          THEN << [language |-> loc.language,
                   territory |-> IF Bit(i, 2) = 1 THEN loc.territory ELSE "",
                   codeset |-> IF Bit(i, 1) = 1 THEN loc.codeset ELSE "",
                   modifier |-> IF Bit(i, 4) = 1 THEN loc.modifier ELSE ""] >>
          ELSE <<>>)
         \o ExpandDown(loc, i - 1, mask)

ExpandLang(loc) ==
    LET mask == (IF loc.codeset # "" THEN 1 ELSE 0)
                + (IF loc.territory # "" THEN 2 ELSE 0)
                + (IF loc.modifier # "" THEN 4 ELSE 0)
    IN  ExpandDown(loc, mask, mask)

\* The inner loop of get: the tags of nlangs not yet in the list are appended.
RECURSIVE AppendNew(_, _, _)
AppendNew(lst, nlangs, k) ==
    IF k > Len(nlangs) THEN lst
    ELSE AppendNew(IF nlangs[k] \in Range(lst) THEN lst
                   ELSE Append(lst, nlangs[k]),
                   nlangs, k + 1)

\* The outer loop of get over locales.
RECURSIVE FillCache(_, _, _)
FillCache(lst, locales, k) ==
    IF k > Len(locales) THEN lst
    ELSE FillCache(AppendNew(lst, ExpandLang(locales[k]), 1), locales, k + 1)

\* get without the reset of the cache: the new chain is appended to the old.
LangsGetKeep(current_locale, last_loc, cch) ==
    IF last_loc = <<current_locale>>
    THEN [last_locale |-> last_loc, cache |-> cch, recomputed |-> FALSE]
    ELSE LET locales == IF current_locale # CTag
                        THEN <<current_locale, CTag>>
                        ELSE <<current_locale>>
             old == IF cch = <<>> THEN <<>> ELSE cch[1]
         IN  [last_locale |-> <<current_locale>>,
              cache |-> <<FillCache(old, locales, 1)>>,
              recomputed |-> TRUE]

\* _Langs.get on the fields last_loc (last_locale) and cch (cache): the fields
\* after the call; the call returns the cache.
LangsGet(current_locale, last_loc, cch) ==
    IF last_loc = <<current_locale>>
    THEN [last_locale |-> last_loc, cache |-> cch, recomputed |-> FALSE]
    ELSE LET locales == IF current_locale # CTag
                        THEN <<current_locale, CTag>>
                        ELSE <<current_locale>>
         IN  [last_locale |-> <<current_locale>>,
              cache |-> <<FillCache(<<>>, locales, 1)>>,
              recomputed |-> TRUE]

\* dct[l]: libcomps gives None for a missing key.
DictGet(dct, l) == IF l \in DOMAIN dct THEN dct[l] ELSE NullText

\* The loop of _ui_text returning the value of the first tag the map holds,
\* None or not.
RECURSIVE UiTextLoopAnyValue(_, _, _, _)
UiTextLoopAnyValue(chain, k, default, dct) ==
    IF k > Len(chain) THEN default
    ELSE IF chain[k] \in DOMAIN dct THEN dct[chain[k]]
    ELSE UiTextLoopAnyValue(chain, k + 1, default, dct)

\* The loop of _ui_text over the chain.
RECURSIVE UiTextLoop(_, _, _, _)
UiTextLoop(chain, k, default, dct) ==
    IF k > Len(chain) THEN default
    ELSE LET t == DictGet(dct, chain[k])
         IN  IF ~t.null THEN t ELSE UiTextLoop(chain, k + 1, default, dct)

\* The tags the by-language maps are keyed by, and the maps.
DictTags == {Tag("en", "_US", ""), Tag("en", "", ""), CTag}
Texts == {NullText, Text("x"), Text("y")}
Dicts == UNION {[D -> Texts] : D \in SUBSET DictTags}
Defaults == {Text("name")}

\* setlocale by the program's environment.
SetLocale(l) ==
    /\ l # lcl
    /\ lcl' = l
    /\ lpc' = "setlocale"
    /\ UNCHANGED <<last_locale, cache, seen, langs, ui, storeVars, stepVars,
                   matchVars>>

\* A call of _Langs.get.
Get ==
    /\ LET current_locale == DottedLocaleStr(lcl)
           after == LangsGet(current_locale, last_locale, cache)
       IN  /\ last_locale' = after.last_locale
           /\ cache' = after.cache
           /\ langs' = [ret |-> after.cache[1], recomputed |-> after.recomputed]
           /\ seen' = <<current_locale>>
    /\ lpc' = "get"
    /\ UNCHANGED <<lcl, ui, storeVars, stepVars, matchVars>>

\* A call of Forwarder._ui_text (ui_name, ui_description).
UiText(default, dct) ==
    /\ LET current_locale == DottedLocaleStr(lcl)
           after == LangsGet(current_locale, last_locale, cache)
       IN  /\ last_locale' = after.last_locale
           /\ cache' = after.cache
           /\ langs' = [ret |-> after.cache[1], recomputed |-> after.recomputed]
           /\ seen' = <<current_locale>>
           /\ ui' = [default |-> default, dct |-> dct,
                     result |-> UiTextLoop(after.cache[1], 1, default, dct)]
    /\ lpc' = "text"
    /\ UNCHANGED <<lcl, storeVars, stepVars, matchVars>>

SetLocaleAny == \E l \in LocaleSettings : SetLocale(l)

UiTextAny == \E default \in Defaults, dct \in Dicts : UiText(default, dct)

NextLangs == SetLocaleAny \/ Get \/ UiTextAny

SpecLangs == Init /\ [][NextLangs]_vars

----------------------------------------------------------------------------
(* The membership rule, stated on a group and a set of installed names *)

MandatoryNames(g) ==
    {g.packages[k].name : k \in {j \in 1..Len(g.packages) :
                                    g.packages[j].type = MANDATORY}}

OptionalOrDefaultNames(g) ==
    {g.packages[k].name : k \in {j \in 1..Len(g.packages) :
                                    g.packages[j].type \in {OPTIONAL, DEFAULT}}}

Rule(g, P) ==
    IF MandatoryNames(g) # {}
    THEN MandatoryNames(g) \subseteq P
    ELSE OptionalOrDefaultNames(g) \cap P # {}

GroupIdsOf(gs) == {gs[i].id : i \in 1..Len(gs)}

IsPrefix(s, t) == Len(s) <= Len(t) /\ SubSeq(t, 1, Len(s)) = s

\* The messages in order with one blank between neighbours.
RECURSIVE Joined(_)
Joined(errors) ==
    IF Len(errors) = 0 THEN <<>>
    ELSE IF Len(errors) = 1 THEN errors[1]
    ELSE Joined(SubSeq(errors, 1, Len(errors) - 1))
            \o <<" ">> \o errors[Len(errors)]

----------------------------------------------------------------------------
(* Claims on the store *)

\* C1: when the last call is compile(P), the installed set is exactly the set
\* of ids of the groups of the store that satisfy the membership rule against
\* P, whatever set earlier compiles left; an id none of whose groups has a
\* mandatory, optional or default package is not in it.
C1_CompileExact ==
    last.op = "compile" =>
        /\ installed_groups =
              {groups[i].id : i \in {j \in 1..Len(groups) :
                                        Rule(groups[j], last.names)}}
        /\ \A id \in installed_groups :
              \E i \in 1..Len(groups) :
                  /\ groups[i].id = id
                  /\ \E k \in 1..Len(groups[i].packages) :
                        groups[i].packages[k].type # CONDITIONAL

\* A compile that drops a group an earlier compile had installed, while another
\* group with a missing mandatory package and an installed optional one stays out.
C1_Witness ==
    /\ last.op = "compile"
    /\ Len(groups) = 2
    /\ installed_groups = {groups[2].id}
    /\ groups[1].id # groups[2].id
    /\ MandatoryNames(groups[1]) # {}
    /\ ~(MandatoryNames(groups[1]) \subseteq last.names)
    /\ OptionalOrDefaultNames(groups[1]) \cap last.names # {}
    /\ MandatoryNames(groups[2]) = {}

C3_InstalledSubset ==
    /\ [](/\ installed_groups \subseteq GroupIdsOf(groups)
          /\ (~compiled => installed_groups = {}))
    /\ [][last'.op = "merge" => installed_groups' = installed_groups]_vars

\* A merge after a compile that installed a group, the set still holding it.
C3_Witness ==
    /\ last.op = "merge"
    /\ compiled
    /\ Len(groups) = 2
    /\ installed_groups = {groups[1].id}
    /\ groups[2].id # groups[1].id

\* C4: a read of Group.installed made while compile runs never finds a group
\* not installed that is installed both before and after the call.
C4_AtomicReplace ==
    (observed.during /\ observed.in_before /\ observed.in_after)
        => observed.value

\* C10: a merge whose parse fails raises the messages joined into one and
\* leaves the three collections, the length and the installed set as they
\* were; a merge whose parse succeeds keeps every entity (each collection
\* before is a prefix of the collection after); the length is the sum of the
\* three collection lengths and no step decreases it.
C10_Merge ==
    [][/\ CompsLen' >= CompsLen
       /\ CompsLen' = Len(categories') + Len(groups') + Len(environments')
       /\ last'.op = "merge" =>
             IF last'.raised.is
             THEN /\ last'.raised.msg = Joined(last'.errors)
                  /\ categories' = categories
                  /\ groups' = groups
                  /\ environments' = environments
                  /\ CompsLen' = CompsLen
                  /\ installed_groups' = installed_groups
             ELSE /\ IsPrefix(categories, categories')
                  /\ IsPrefix(groups, groups')
                  /\ IsPrefix(environments, environments')]_vars

\* A failed parse with two messages on a store that holds entities and an
\* installed group.
C10_Witness ==
    /\ last.op = "merge"
    /\ last.raised.is
    /\ Len(last.errors) = 2
    /\ last.raised.msg = <<"no", "root", " ", "bad">>
    /\ CompsLen = 3
    /\ installed_groups # {}

----------------------------------------------------------------------------
(* Claims on the pattern lookup *)

HasComma(s) == \E k \in 1..Len(s) : s[k] = ","

\* s without its leading and trailing blanks: the slice of s that neither
\* starts nor ends with a blank and has only blanks around it.
Trimmed(s) ==
    CHOOSE t \in {SubSeq(s, i, j) : i \in 1..(Len(s) + 1), j \in 0..Len(s)} :
        /\ (Len(t) > 0 => t[1] # " " /\ t[Len(t)] # " ")
        /\ \E l, r \in 0..Len(s) :
              /\ l + Len(t) + r = Len(s)
              /\ \A k \in 1..Len(s) :
                    IF k <= l \/ k > l + Len(t) THEN s[k] = " "
                    ELSE s[k] = t[k - l]

\* The candidates whose name or id is literally the item.
EqualTo(item) == {i \in 1..Len(sqn) : sqn[i].name = item \/ sqn[i].id = item}

Least(S) == CHOOSE m \in S : \A n \in S : m <= n

\* C5: for a pattern of one item, when some candidate has its name or id equal
\* to the trimmed item, the lookup returns exactly the candidates whose name or
\* id equals it, and the single-result accessor returns one of them.
C5_ExactOnly ==
    (mpc \in {"set", "first"} /\ ~HasComma(pattern)) =>
        LET exact == EqualTo(Trimmed(pattern))
        IN  exact # {} =>
               /\ by_pattern_ret = exact
               /\ mpc = "first" => first \in exact

\* An item with blanks around it that equals one candidate's name, holds a
\* glob character and, as a glob, matches a candidate that is left out.
C5_Witness ==
    /\ mpc = "first"
    /\ pattern = <<"a", "*", " ">>
    /\ by_pattern_ret = {first}
    /\ first # 0
    /\ sqn[first].name = <<"a", "*">>
    /\ \E i \in 1..Len(sqn) :
          /\ i \notin by_pattern_ret
          /\ i \in GlobStage(<<"a", "*">>, case_sensitive, sqn)

\* C6: the lookup of 'a,b' returns the union of the lookups of 'a' and of
\* 'b', whatever the flag and the collection.
C6_Union ==
    mpc = "set" =>
        \A k \in 1..Len(pattern) :
            pattern[k] = "," =>
                by_pattern_ret =
                    ByPattern(SubSeq(pattern, 1, k - 1), case_sensitive, sqn)
                    \cup ByPattern(SubSeq(pattern, k + 1, Len(pattern)),
                                   case_sensitive, sqn)

\* The first item has an exact match, the second only glob matches, one
\* candidate is matched by both and the other by the second alone.
C6_Witness ==
    /\ mpc = "set"
    /\ pattern = <<"a", ",", "?">>
    /\ ~case_sensitive
    /\ Len(sqn) = 2
    /\ EqualTo(<<"a">>) = {1}
    /\ EqualTo(<<"?">>) = {}
    /\ ByPattern(<<"?">>, case_sensitive, sqn) = {1, 2}
    /\ by_pattern_ret = {1, 2}

\* C7 as stated: the single-result accessor returns None exactly when the set
\* is empty and otherwise the match that comes first in the collection.
C7_FirstInOrder ==
    mpc = "first" =>
        /\ first = 0 <=> by_pattern_ret = {}
        /\ by_pattern_ret # {} => first = Least(by_pattern_ret)

\* C7 amended: the single-result accessor returns None exactly when the set
\* is empty and otherwise one of the matches.
C7_FirstOfSet ==
    mpc = "first" =>
        /\ first = 0 <=> by_pattern_ret = {}
        /\ by_pattern_ret # {} => first \in by_pattern_ret

\* Two matches, and the accessor returns the one that comes second.
C7_Witness ==
    /\ mpc = "first"
    /\ Cardinality(by_pattern_ret) = 2
    /\ first \in by_pattern_ret
    /\ first # Least(by_pattern_ret)

----------------------------------------------------------------------------
(* Claims on the language chain and the localized text *)

NoDuplicates(s) == \A i, j \in 1..Len(s) : i # j => s[i] # s[j]

IsSuffix(s, t) ==
    Len(s) <= Len(t) /\ SubSeq(t, Len(t) - Len(s) + 1, Len(t)) = s

C9_Chain ==
    /\ [](lpc \in {"get", "text"} =>
            LET cur == DottedLocaleStr(lcl)
                own == ExpandLang(cur)
            IN  /\ langs.ret =
                      own \o SelectSeq(IF cur # CTag THEN ExpandLang(CTag) ELSE <<>>,
                                       LAMBDA t : t \notin Range(own))
                /\ NoDuplicates(langs.ret)
                /\ IsSuffix(ExpandLang(CTag), langs.ret)
                /\ cache = <<langs.ret>>)
    /\ [][lpc' \in {"get", "text"} =>
             (langs'.recomputed <=> seen # <<DottedLocaleStr(lcl)>>)]_vars

\* A call under C.UTF-8 after a call under en_US.UTF-8: the chain is
\* recomputed and the 'C' of the fallback is not added a second time.
C9_Witness ==
    /\ lpc = "get"
    /\ lcl = Locale("C", "", ".UTF-8")
    /\ langs.recomputed
    /\ langs.ret = <<Tag("C", "", ".UTF-8"), CTag>>
    /\ seen = <<Tag("C", "", ".UTF-8")>>
    /\ last_locale = seen

====
